---- MODULE Spec2Model ----
(***************************************************************************)
(* A model of configr (src/src/index.ts): the property registry kept in    *)
(* reflect-metadata, and the Configr wrapper that binds documents to       *)
(* instances, serializes instances, writes default documents, validates    *)
(* and reads files.                                                        *)
(*                                                                         *)
(* JavaScript values are modelled as strings: a scalar is its literal      *)
(* ("0", "false", "'testUser'"), undefined is "undefined", and a           *)
(* structured value (object, array) is a reference "@..." into the heap.   *)
(* Objects (documents, instances, key/value output objects) are functions  *)
(* from their own property keys to values.                                 *)
(***************************************************************************)
EXTENDS Naturals, Sequences, FiniteSets, TLC

VARIABLES
  meta,      \* reflect-metadata: per prototype, whether it owns a ConfigPropListKey list, and the list
  defining,  \* the class whose definition (and decorators) is being evaluated, or "none"
  defined,   \* the classes whose definition has been evaluated
  ctor,      \* the class wrapped by the Configr under use, or "none"
  insts,     \* instances returned by loadFromObject that the caller still holds
  heap,      \* state of every structured value: how many times it was mutated
  fs,        \* the file system: per path, "missing", "file" or "dir"
  res        \* what the last Configr call was given and what it produced

vars == <<meta, defining, defined, ctor, insts, heap, fs, res>>

-----------------------------------------------------------------------------
(* Bounds *)

\* number of decorated fields a class may declare
MaxProps == 2
\* number of instances a caller keeps at a time
MaxInst == 2
\* number of times one structured value is mutated
MaxMut == 1

-----------------------------------------------------------------------------
(* JavaScript values *)

Undefined == "undefined"

\* the values JavaScript's ToBoolean maps to false
Falsy == {"undefined", "null", "false", "0", "''"}

Truthy(v) == v \notin Falsy

\* a || b
Or(a, b) == IF Truthy(a) THEN a ELSE b

\* structured values live on the heap and are held by reference
Refs == {"@docValue", "@defaultValue"}

EmptyObj == [k \in {} |-> Undefined]

\* Reflect.has(obj, key) / key in obj
Has(obj, key) == key \in DOMAIN obj

\* obj[key] / Reflect.get(obj, key)
Get(obj, key) == IF key \in DOMAIN obj THEN obj[key] ELSE Undefined

\* Reflect.set(obj, key, value) / obj[key] = value
Put(obj, key, value) ==
  [k \in (DOMAIN obj) \cup {key} |-> IF k = key THEN value ELSE obj[k]]

\* String.prototype.toLowerCase on the strings the model uses
ToLowerCase(s) ==
  CASE s = "String"  -> "string"
    [] s = "Number"  -> "number"
    [] s = "Boolean" -> "boolean"
    [] s = ".JSON"   -> ".json"
    [] s = ".YAML"   -> ".yaml"
    [] OTHER         -> s

\* s.replace('.', '') : removes the first period
StripDot(s) ==
  CASE s = ".json"  -> "json"
    [] s = ".yaml"  -> "yaml"
    [] s = ".json5" -> "json5"
    [] s = ".toml"  -> "toml"
    [] OTHER        -> s

-----------------------------------------------------------------------------
(* Classes and their fields *)

Classes == {"TestConfig1", "BaseConfig", "SubConfig"}

\* Object.getPrototypeOf(C.prototype) for the user classes: SubConfig extends BaseConfig
Proto(c) == IF c = "SubConfig" THEN "BaseConfig" ELSE "none"

KeyNames == <<"username", "isAdmin", "serverPort", "tokenSecret">>

\* the fields a class may decorate
Keys == {KeyNames[i] : i \in 1..MaxProps}

\* the fields SubConfig adds to those it inherits
SubKeys == {KeyNames[MaxProps + 1]}

FieldsOf(c) == IF c = "SubConfig" THEN SubKeys ELSE Keys

\* Reflect.getMetadata('design:type', target, propertyKey): the declared type
DesignType(target, propertyKey) ==
  CASE propertyKey = "username"    -> "String"
    [] propertyKey = "isAdmin"     -> "Boolean"
    [] propertyKey = "serverPort"  -> "Number"
    [] propertyKey = "tokenSecret" -> "String"

\* the value of the name option where a declaration overrides the serialized name
Alias(propertyKey) ==
  CASE propertyKey = "username"    -> "user_name"
    [] propertyKey = "isAdmin"     -> "is_admin"
    [] propertyKey = "serverPort"  -> "server_port"
    [] propertyKey = "tokenSecret" -> "token_secret"

\* IConfigPropOptions; an option left out is undefined (required: not true)
Opts(name, default, required, placeholderText) ==
  [name |-> name, default |-> default, required |-> required,
   placeholderText |-> placeholderText]

\* the option objects the declarations pass to Prop where documents are bound
BindOptions(propertyKey) ==
  { Opts(Undefined, Undefined, FALSE, Undefined),
    Opts(Undefined, Undefined, TRUE, Undefined),
    Opts(Undefined, "false", FALSE, Undefined),
    Opts(Undefined, "8080", FALSE, Undefined),
    Opts(Alias(propertyKey), Undefined, TRUE, Undefined),
    Opts(Alias(propertyKey), "8080", FALSE, Undefined) }

\* the option objects the declarations pass to Prop where defaults are written
DefaultOptions(propertyKey) ==
  { Opts(Undefined, d, r, Undefined) : d \in {Undefined, "false", "8080"}, r \in BOOLEAN }
  \cup { Opts(Alias(propertyKey), Undefined, TRUE, "'<secret>'"),
         Opts(Undefined, "false", TRUE, "'<secret>'") }

\* declarations whose default may be a structured value (an array, an object)
RefOptions(propertyKey) ==
  { Opts(Undefined, Undefined, FALSE, Undefined),
    Opts(Undefined, "@defaultValue", FALSE, Undefined),
    Opts(Undefined, Undefined, TRUE, Undefined) }

\* declarations where only the identity of the descriptor matters
PlainOptions(propertyKey) ==
  { Opts(Undefined, Undefined, FALSE, Undefined),
    Opts(Undefined, Undefined, TRUE, Undefined) }

-----------------------------------------------------------------------------
(* The registry: reflect-metadata under ConfigPropListKey *)

NoMeta == [c \in Classes |-> [own |-> FALSE, list |-> <<>>]]

RECURSIVE MetadataOwner(_, _)
\* the prototype on target's chain that owns the metadata key, or "none"
\* (reflect-metadata's OrdinaryHasMetadata / OrdinaryGetMetadata walk the chain)
MetadataOwner(m, target) ==
  IF target = "none" THEN "none"
  ELSE IF m[target].own THEN target
  ELSE MetadataOwner(m, Proto(target))

\* Reflect.hasMetadata(ConfigPropListKey, target)
HasMetadata(m, target) == MetadataOwner(m, target) # "none"

\* ensurePropList
ensurePropList(m, target) ==
  IF ~HasMetadata(m, target)
  THEN [m EXCEPT ![target] = [own |-> TRUE, list |-> <<>>]]
  ELSE m

\* the descriptor addToPropList builds
NewProps(propertyKey, target, propertyOptions) ==
  [propertyKey     |-> propertyKey,
   designType      |-> DesignType(target, propertyKey),
   name            |-> IF ~Truthy(propertyOptions.name)
                       THEN propertyKey ELSE propertyOptions.name,
   default         |-> propertyOptions.default,
   required        |-> propertyOptions.required,
   placeholderText |-> propertyOptions.placeholderText]

\* addToPropList: push onto the array Reflect.getMetadata returns
addToPropList(m, propertyKey, target, propertyOptions) ==
  LET m1    == ensurePropList(m, target)
      owner == MetadataOwner(m1, target)
  IN  [m1 EXCEPT ![owner].list =
         Append(@, NewProps(propertyKey, target, propertyOptions))]

\* getConfigPropList: undefined when no prototype on the chain carries a list
HasPropList(m, target) == HasMetadata(m, target)

getConfigPropList(m, target) == m[MetadataOwner(m, target)].list

\* this.propList of the Configr under use (the registry's array itself)
PropListDefined == ctor # "none" /\ HasPropList(meta, ctor)

PropList == getConfigPropList(meta, ctor)

\* the property keys already in the list a class's decorators push to
DeclaredKeys(m, c) ==
  IF HasPropList(m, c)
  THEN {getConfigPropList(m, c)[i].propertyKey : i \in DOMAIN getConfigPropList(m, c)}
  ELSE {}

-----------------------------------------------------------------------------
(* Configr: the pure part of each method *)

\* Reflect.construct(this.ctor, objArgs | []): the classes of the model have
\* constructors that set no field
Construct(c, objArgs) == EmptyObj

\* a changed FieldValue: the default only when the document lacks the key
FieldValueByPresence(obj, prop) ==
  IF Has(obj, prop.name) THEN obj[prop.name] ELSE prop.default

\* the value loadFromObject assigns to a descriptor's field: obj[prop.name] || prop.default
FieldValue(obj, prop) == Or(Get(obj, prop.name), prop.default)

RECURSIVE LoadLoop(_, _, _, _, _)
\* the forEach of loadFromObject from descriptor i on; a throw ends the loop
LoadLoop(propList, i, obj, missingProperties, cfgObj) ==
  IF i > Len(propList)
  THEN [status |-> "ok", missing |-> missingProperties, cfgObj |-> cfgObj]
  ELSE LET prop == propList[i]
           missing1 == IF prop.required /\ ~Has(obj, prop.name)
                       THEN Append(missingProperties, prop.name)
                       ELSE missingProperties
       IN  IF Len(missing1) > 0
           THEN [status |-> "throw", missing |-> missing1, cfgObj |-> cfgObj]
           ELSE LoadLoop(propList, i + 1, obj, missing1,
                         Put(cfgObj, prop.propertyKey, FieldValue(obj, prop)))

\* loadFromObject(obj, objArgs) over a defined propList
LoadFromObject(propList, c, obj, objArgs) ==
  LoadLoop(propList, 1, obj, <<>>, Construct(c, objArgs))

RECURSIVE WriteObjLoop(_, _, _, _)
WriteObjLoop(propList, i, obj, writeObj) ==
  IF i > Len(propList) THEN writeObj
  ELSE WriteObjLoop(propList, i + 1, obj,
                    Put(writeObj, propList[i].name, Get(obj, propList[i].propertyKey)))

RECURSIVE WriteObjByKeyLoop(_, _, _, _)
WriteObjByKeyLoop(propList, i, obj, writeObj) ==
  IF i > Len(propList) THEN writeObj
  ELSE WriteObjByKeyLoop(propList, i + 1, obj,
                         Put(writeObj, propList[i].propertyKey,
                             Get(obj, propList[i].propertyKey)))

\* a changed WriteObj: the output keyed by property key, not by serialized name
WriteObjByPropertyKey(propList, obj) == WriteObjByKeyLoop(propList, 1, obj, EmptyObj)

\* the key/value object writeFilePrep builds from an instance
WriteObj(propList, obj) == WriteObjLoop(propList, 1, obj, EmptyObj)

\* guessSerializerFunction: the serializer's format, or "null"
guessSerializerFunction(extension) ==
  LET e == StripDot(ToLowerCase(extension))
  IN  IF e \in {"json", "yaml", "json5"} THEN e ELSE "null"

\* guessParseFunction: the parser's format, or "null"
guessParseFunction(extension) ==
  LET e == StripDot(ToLowerCase(extension))
  IN  IF e \in {"json", "yaml", "json5"} THEN e ELSE "null"

Paths == {"config.json", "config.YAML", "config.json5", "config.toml", "config"}

\* path.extname
ExtName(filePath) ==
  CASE filePath = "config.json"  -> ".json"
    [] filePath = "config.YAML"  -> ".YAML"
    [] filePath = "config.json5" -> ".json5"
    [] filePath = "config.toml"  -> ".toml"
    [] filePath = "config"       -> ""

\* the serializer writeFilePrep ends up with: format || extname, falling back to JSON
WriteFormat(filePath, format) ==
  LET serializer == guessSerializerFunction(
                      IF Truthy(format) THEN format ELSE ExtName(filePath))
  IN  IF serializer = "null" THEN "json" ELSE serializer

\* the placeholder serializeDefault generates for a required field
GeneratedPlaceholder(designType) ==
  "REQUIRED FIELD (" \o ToLowerCase(designType) \o ")"

\* one step of serializeDefault's forEach
DefaultEntry(outObj, prop) ==
  IF Truthy(prop.default)
  THEN Put(outObj, prop.name, prop.default)
  ELSE IF prop.required
       THEN Put(outObj, prop.name,
                IF Truthy(prop.placeholderText) THEN prop.placeholderText
                ELSE GeneratedPlaceholder(prop.designType))
       ELSE outObj

RECURSIVE DefaultLoop(_, _, _)
DefaultLoop(propList, i, outObj) ==
  IF i > Len(propList) THEN outObj
  ELSE DefaultLoop(propList, i + 1, DefaultEntry(outObj, propList[i]))

\* the key/value object serializeDefault builds
SerializeDefaultObj(propList) == DefaultLoop(propList, 1, EmptyObj)

\* a changed IsValidCallback: the callback returns what Reflect.has answers
IsValidCallbackReturning(obj, prop) ==
  IF Has(obj, prop.propertyKey) THEN "true" ELSE "false"

\* what the callback isValid hands to every() returns: its body is the
\* expression statement Reflect.has(_obj, prop.propertyKey) with no return
IsValidCallback(obj, prop) == Undefined

\* isValid: this.propList.every(callback)
IsValid(propList, obj) ==
  \A i \in DOMAIN propList : Truthy(IsValidCallback(obj, propList[i]))

-----------------------------------------------------------------------------
(* The record of a call *)

NoRes ==
  [op      |-> "none",     \* the method called
   status  |-> "ok",       \* "ok", or "throw"
   error   |-> "none",     \* which error was thrown
   missing |-> <<>>,       \* the names the missing-properties error lists
   doc     |-> EmptyObj,   \* the document given to (or parsed for) loadFromObject
   obj     |-> EmptyObj,   \* the instance given or returned
   out     |-> EmptyObj,   \* the key/value object handed to the serializer
   format  |-> "none",     \* the serializer chosen
   valid   |-> FALSE,      \* isValid's result
   path    |-> "none",     \* the file path given
   file    |-> "none",     \* what was at the path when the call was made
   io      |-> <<>>,       \* the file-system calls made, in order
   slot    |-> 0]          \* the instance a caller's mutation went through

\* the outcome of loadFromObject as a call record
LoadRes(op, c, obj) ==
  IF ~HasPropList(meta, c)
  THEN [NoRes EXCEPT !.op = op, !.doc = obj, !.status = "throw", !.error = "TypeError"]
  ELSE LET r == LoadFromObject(getConfigPropList(meta, c), c, obj, Undefined)
       IN  IF r.status = "throw"
           THEN [NoRes EXCEPT !.op = op, !.doc = obj, !.status = "throw",
                              !.error = "Missing properties", !.missing = r.missing]
           ELSE [NoRes EXCEPT !.op = op, !.doc = obj, !.obj = r.cfgObj]

-----------------------------------------------------------------------------
(* Class definition: the decorators run as each class is defined *)

Init ==
  /\ meta = NoMeta
  /\ defining = "none"
  /\ defined = {}
  /\ ctor = "none"
  /\ insts = <<>>
  /\ heap = [r \in Refs |-> 0]
  /\ fs = [p \in Paths |-> "missing"]
  /\ res = NoRes

\* evaluation of a class definition starts: classes are defined as the program
\* loads, before a Configr is built, and a base class before its subclass
BeginClass(c) ==
  /\ ctor = "none"
  /\ defining = "none"
  /\ c \notin defined
  /\ Proto(c) # "none" => Proto(c) \in defined
  /\ defining' = c
  /\ UNCHANGED <<meta, defined, ctor, insts, heap, fs, res>>

\* @Prop(opts) on a field of the class being defined; a class declares each of
\* its fields once, and SubConfig redeclares no field of BaseConfig
Prop(propertyKey, opts) ==
  /\ defining # "none"
  /\ propertyKey \in FieldsOf(defining)
  /\ propertyKey \notin DeclaredKeys(meta, defining)
  /\ meta' = addToPropList(meta, propertyKey, defining, opts)
  /\ UNCHANGED <<defining, defined, ctor, insts, heap, fs, res>>

EndClass ==
  /\ defining # "none"
  /\ defined' = defined \cup {defining}
  /\ defining' = "none"
  /\ UNCHANGED <<meta, ctor, insts, heap, fs, res>>

\* new Configr(ctor)
NewConfigr(c) ==
  /\ defining = "none"
  /\ ctor = "none"
  /\ c \in defined
  /\ ctor' = c
  /\ UNCHANGED <<meta, defining, defined, insts, heap, fs, res>>

-----------------------------------------------------------------------------
(* Configr's methods *)

\* the serialized names of the Configr's descriptors
Names == IF PropListDefined THEN {PropList[i].name : i \in DOMAIN PropList} ELSE {}

\* the documents over a set of keys and a set of values
DocsOver(keys, values) ==
  UNION {[ks -> values] : ks \in SUBSET keys}

ScalarValues == {"0", "'testUser'"}

\* loadFromObject(obj), the caller keeping no more than the instance returned
LoadFromObjectCall(obj) ==
  /\ ctor # "none"
  /\ res' = LoadRes("loadFromObject", ctor, obj)
  /\ UNCHANGED <<meta, defining, defined, ctor, insts, heap, fs>>

\* writeToFile / writeToFileSync of the instance the last loadFromObject returned:
\* writeFilePrep's object and serializer
WriteToFile(filePath, format) ==
  /\ ctor # "none"
  /\ res.op = "loadFromObject" /\ res.status = "ok"
  /\ res' = IF ~PropListDefined
            THEN [NoRes EXCEPT !.op = "writeToFile", !.status = "throw",
                               !.error = "TypeError"]
            ELSE [NoRes EXCEPT !.op = "writeToFile", !.doc = res.doc, !.obj = res.obj,
                               !.path = filePath,
                               !.out = WriteObj(PropList, res.obj),
                               !.format = WriteFormat(filePath, format)]
  /\ UNCHANGED <<meta, defining, defined, ctor, insts, heap, fs>>

\* writeDefault / writeDefaultSync: serializeDefault(format || extname(filePath))
WriteDefault(filePath, format) ==
  /\ ctor # "none"
  /\ res' = IF ~PropListDefined
            THEN [NoRes EXCEPT !.op = "writeDefault", !.status = "throw",
                               !.error = "TypeError"]
            ELSE [NoRes EXCEPT !.op = "writeDefault", !.path = filePath,
                               !.out = SerializeDefaultObj(PropList),
                               !.format = WriteFormat(filePath, format)]
  /\ UNCHANGED <<meta, defining, defined, ctor, insts, heap, fs>>

\* isValid(obj)
IsValidCall(obj) ==
  /\ ctor # "none"
  /\ res' = IF ~PropListDefined
            THEN [NoRes EXCEPT !.op = "isValid", !.obj = obj, !.status = "throw",
                               !.error = "TypeError"]
            ELSE [NoRes EXCEPT !.op = "isValid", !.obj = obj,
                               !.valid = IsValid(PropList, obj)]
  /\ UNCHANGED <<meta, defining, defined, ctor, insts, heap, fs>>

-----------------------------------------------------------------------------
(* Binding and serializing documents *)

\* the paths the write calls of the model are given
WritePaths == {"config.YAML"}

\* the format argument they are given: left out, or a FileFormat
WriteFormats == {Undefined, "json5"}

DefineBound ==
  \/ BeginClass("TestConfig1")
  \/ \E k \in Keys : \E o \in BindOptions(k) : Prop(k, o)
  \/ EndClass
  \/ NewConfigr("TestConfig1")

Next ==
  \/ DefineBound
  \/ \E obj \in DocsOver(Names, ScalarValues) : LoadFromObjectCall(obj)
  \/ \E p \in WritePaths, f \in WriteFormats : WriteToFile(p, f)

Spec == Init /\ [][Next]_vars

-----------------------------------------------------------------------------
(* Writing defaults and validating *)

DefineDefaults ==
  \/ BeginClass("TestConfig1")
  \/ \E k \in Keys : \E o \in DefaultOptions(k) : Prop(k, o)
  \/ EndClass
  \/ NewConfigr("TestConfig1")

NextDefault ==
  \/ DefineDefaults
  \/ \E p \in WritePaths, f \in WriteFormats : WriteDefault(p, f)
  \/ \E obj \in DocsOver(Keys, {"'testUser'"}) : IsValidCall(obj)

SpecDefault == Init /\ [][NextDefault]_vars

-----------------------------------------------------------------------------
(* Instances held by the caller, and the structured values they share *)

\* the field whose values may be structured
RefKeys == {KeyNames[1]}

DefineRefs ==
  \/ BeginClass("TestConfig1")
  \/ \E k \in RefKeys : \E o \in RefOptions(k) : Prop(k, o)
  \/ EndClass
  \/ NewConfigr("TestConfig1")

\* loadFromObject(obj), the caller keeping the instance returned; every call
\* after the first is given the same document object again
LoadFromObjectKeep(obj) ==
  /\ ctor # "none"
  /\ Len(insts) < MaxInst
  /\ Len(insts) > 0 => obj = insts[1].doc
  /\ res' = LoadRes("loadFromObject", ctor, obj)
  /\ insts' = IF res'.status = "ok"
              THEN Append(insts, [obj |-> res'.obj, doc |-> obj])
              ELSE insts
  /\ UNCHANGED <<meta, defining, defined, ctor, heap, fs>>

\* the caller mutates the structured value a field of one of its instances
\* holds (instance.field.push(x), instance.field.k = x)
MutateNested(slot, key) ==
  /\ slot \in DOMAIN insts
  /\ key \in DOMAIN insts[slot].obj
  /\ insts[slot].obj[key] \in Refs
  /\ heap[insts[slot].obj[key]] < MaxMut
  /\ heap' = [heap EXCEPT ![insts[slot].obj[key]] = @ + 1]
  /\ res' = [NoRes EXCEPT !.op = "mutate", !.slot = slot]
  /\ UNCHANGED <<meta, defining, defined, ctor, insts, fs>>

\* the caller assigns a field of one of its instances (instance.field = x)
AssignField(slot, key) ==
  /\ slot \in DOMAIN insts
  /\ key \in DOMAIN insts[slot].obj
  /\ insts[slot].obj[key] # "'changed'"
  /\ insts' = [insts EXCEPT ![slot].obj = Put(@, key, "'changed'")]
  /\ res' = [NoRes EXCEPT !.op = "assign", !.slot = slot]
  /\ UNCHANGED <<meta, defining, defined, ctor, heap, fs>>

NextAlias ==
  \/ DefineRefs
  \/ \E obj \in DocsOver(Names, {"'testUser'", "@docValue"}) : LoadFromObjectKeep(obj)
  \/ \E slot \in 1..MaxInst, k \in RefKeys : MutateNested(slot, k)
  \/ \E slot \in 1..MaxInst, k \in RefKeys : AssignField(slot, k)

SpecAlias == Init /\ [][NextAlias]_vars

-----------------------------------------------------------------------------
(* The registry over several classes *)

NextRegistry ==
  \/ \E c \in Classes : BeginClass(c)
  \/ \E k \in Keys \cup SubKeys : \E o \in PlainOptions(k) : Prop(k, o)
  \/ EndClass

SpecRegistry == Init /\ [][NextRegistry]_vars

-----------------------------------------------------------------------------
(* Reading files *)

\* the paths the read calls of the model are given
ReadPaths == {"config.json", "config.YAML", "config.toml"}

\* the document the parser yields for the text of a file (the parsers are
\* libraries: JSON.parse, js-yaml, json5)
ParsedText(filePath) == [k \in {"username"} |-> "'testUser'"]

\* the environment creates, replaces or removes what is at a path
SetPath(filePath, kind) ==
  /\ fs[filePath] # kind
  /\ fs' = [fs EXCEPT ![filePath] = kind]
  /\ UNCHANGED <<meta, defining, defined, ctor, insts, heap, res>>

\* fileReaderFn(rawFile, filePath): the call record `r` completed
fileReaderFn(r, c, filePath) ==
  LET extension == ToLowerCase(ExtName(filePath))
      parseFn   == guessParseFunction(extension)
  IN  IF parseFn = "null"
      THEN [r EXCEPT !.status = "throw", !.error = "No parser found"]
      ELSE LET l == LoadRes(r.op, c, ParsedText(filePath))
           IN  [l EXCEPT !.path = r.path, !.file = r.file, !.io = r.io]

\* a changed ReadFromFileSyncRes: the parser is looked up before the file system is asked
ReadFromFileSyncParserFirst(c, filePath, kind) ==
  LET r == [NoRes EXCEPT !.op = "readFromFileSync", !.path = filePath, !.file = kind]
  IN  IF guessParseFunction(ToLowerCase(ExtName(filePath))) = "null"
      THEN [r EXCEPT !.status = "throw", !.error = "No parser found"]
      ELSE IF kind = "missing"
      THEN [r EXCEPT !.io = <<"existsSync">>, !.status = "throw", !.error = "No file at"]
      ELSE IF kind = "dir"
      THEN [r EXCEPT !.io = <<"existsSync", "readFileSync">>, !.status = "throw",
                     !.error = "EISDIR"]
      ELSE fileReaderFn([r EXCEPT !.io = <<"existsSync", "readFileSync">>], c, filePath)

\* readFromFileSync(filePath)
ReadFromFileSyncRes(c, filePath, kind) ==
  LET r == [NoRes EXCEPT !.op = "readFromFileSync", !.path = filePath, !.file = kind]
  IN  IF kind = "missing"
      THEN [r EXCEPT !.io = <<"existsSync">>, !.status = "throw", !.error = "No file at"]
      ELSE IF kind = "dir"
      THEN [r EXCEPT !.io = <<"existsSync", "readFileSync">>, !.status = "throw",
                     !.error = "EISDIR"]
      ELSE fileReaderFn([r EXCEPT !.io = <<"existsSync", "readFileSync">>], c, filePath)

\* readFromFile(filePath): the promise's outcome
ReadFromFileRes(c, filePath, kind) ==
  LET r == [NoRes EXCEPT !.op = "readFromFile", !.path = filePath, !.file = kind]
  IN  IF kind = "missing"
      THEN [r EXCEPT !.io = <<"stat">>, !.status = "throw", !.error = "ENOENT"]
      ELSE IF kind = "dir"
      THEN [r EXCEPT !.io = <<"stat">>, !.status = "throw", !.error = "No file at"]
      ELSE fileReaderFn([r EXCEPT !.io = <<"stat", "readFile">>], c, filePath)

ReadFromFileSync(filePath) ==
  /\ ctor # "none"
  /\ res' = ReadFromFileSyncRes(ctor, filePath, fs[filePath])
  /\ UNCHANGED <<meta, defining, defined, ctor, insts, heap, fs>>

ReadFromFile(filePath) ==
  /\ ctor # "none"
  /\ res' = ReadFromFileRes(ctor, filePath, fs[filePath])
  /\ UNCHANGED <<meta, defining, defined, ctor, insts, heap, fs>>

DefinePlain ==
  \/ BeginClass("TestConfig1")
  \/ \E k \in Keys : \E o \in PlainOptions(k) : Prop(k, o)
  \/ EndClass
  \/ NewConfigr("TestConfig1")

NextFile ==
  \/ DefinePlain
  \/ \E p \in ReadPaths, kind \in {"missing", "file", "dir"} : SetPath(p, kind)
  \/ \E p \in ReadPaths : ReadFromFileSync(p)
  \/ \E p \in ReadPaths : ReadFromFile(p)

SpecFile == Init /\ [][NextFile]_vars

-----------------------------------------------------------------------------
(* Properties *)

Descriptors == IF PropListDefined THEN {PropList[i] : i \in DOMAIN PropList} ELSE {}

\* the last call was a loadFromObject over a defined descriptor list
Loaded == res.op = "loadFromObject" /\ PropListDefined

\* the serialized names of the required descriptors the document lacks
MissingRequired(doc) == {p.name : p \in {q \in Descriptors : q.required /\ ~Has(doc, q.name)}}

\* C1: for every descriptor list and every document that holds the serialized
\* name of every required descriptor, loadFromObject succeeds, and each
\* descriptor's field of the instance is the document's value at the serialized
\* name when the key is present with a non-falsy value, the default otherwise.
C1_BindAssigns ==
  (Loaded /\ MissingRequired(res.doc) = {}) =>
    /\ res.status = "ok"
    /\ \A p \in Descriptors :
         /\ Has(res.obj, p.propertyKey)
         /\ res.obj[p.propertyKey] =
              IF Has(res.doc, p.name) /\ Truthy(res.doc[p.name])
              THEN res.doc[p.name] ELSE p.default

\* the test's case: a required field taken from the document, an optional
\* field absent from it that receives its default false
C1_Witness ==
  /\ Loaded /\ res.status = "ok"
  /\ \E p, q \in Descriptors :
       /\ p.required /\ Has(res.doc, p.name) /\ res.obj[p.propertyKey] = "'testUser'"
       /\ ~q.required /\ ~Has(res.doc, q.name) /\ q.default = "false"
       /\ res.obj[q.propertyKey] = "false"

\* C2: for every document missing one or more required fields, loadFromObject
\* fails with the missing-properties error, and the names the error lists are
\* exactly the required serialized names absent from the document.
C2_AllMissingListed ==
  (Loaded /\ MissingRequired(res.doc) # {}) =>
    /\ res.status = "throw"
    /\ res.error = "Missing properties"
    /\ {res.missing[i] : i \in DOMAIN res.missing} = MissingRequired(res.doc)

\* C3: for every document that holds every required field and only non-falsy
\* values, the object writeFilePrep builds from the instance loadFromObject
\* returned maps every descriptor's serialized name present in the document to
\* the document's value.
C3_RoundTrip ==
  (/\ res.op = "writeToFile" /\ res.status = "ok"
   /\ \A k \in DOMAIN res.doc : Truthy(res.doc[k])) =>
    \A p \in Descriptors :
      Has(res.doc, p.name) => Has(res.out, p.name) /\ res.out[p.name] = res.doc[p.name]

\* a round trip of a non-empty document through a descriptor whose serialized
\* name differs from its property key
C3_Witness ==
  /\ res.op = "writeToFile" /\ res.status = "ok"
  /\ \A k \in DOMAIN res.doc : Truthy(res.doc[k])
  /\ \E p \in Descriptors :
       /\ p.name # p.propertyKey
       /\ Has(res.doc, p.name)
       /\ res.out[p.name] = "'testUser'"

\* what C4 says serializeDefault's object holds for a descriptor
C4_Expected(p, out) ==
  IF p.default # Undefined
  THEN Has(out, p.name) /\ out[p.name] = p.default
  ELSE IF p.required
       THEN /\ Has(out, p.name)
            /\ out[p.name] = IF p.placeholderText # Undefined THEN p.placeholderText
                             ELSE GeneratedPlaceholder(p.designType)
       ELSE ~Has(out, p.name)

\* C4: the default document holds, for each descriptor, its default whenever
\* one is set (false, 0 and the empty string included); else, if required, its
\* placeholderText if set, else the generated placeholder naming the declared
\* type; else the key is left out.
C4_DefaultDocument ==
  (res.op = "writeDefault" /\ res.status = "ok") =>
    \A p \in Descriptors : C4_Expected(p, res.out)

\* C5: isValid(obj) is true if and only if every descriptor's field is present
\* on obj.
C5_IsValidChecksFields ==
  (res.op = "isValid" /\ res.status = "ok") =>
    (res.valid <=> \A p \in Descriptors : Has(res.obj, p.propertyKey))

\* C8 as stated: isValid reports valid for every descriptor list and every object.
C8_AlwaysValid ==
  (res.op = "isValid" /\ res.status = "ok") => res.valid

\* C8 as amended: isValid never reports valid. The list a class's decorators
\* build is never empty, every() gets undefined from the callback for its first
\* descriptor, and the result is false whichever fields the object has.
C8_NeverValid ==
  (res.op = "isValid" /\ res.status = "ok") => (~res.valid /\ Len(PropList) > 0)

\* isValid answers false for an object that has every descriptor's field
C8_Witness ==
  /\ res.op = "isValid" /\ res.status = "ok"
  /\ Len(PropList) = MaxProps
  /\ \A p \in Descriptors : Has(res.obj, p.propertyKey)
  /\ ~res.valid

\* C10: after a successful loadFromObject every required descriptor's field of
\* the instance holds a defined value.
C10_RequiredPopulated ==
  (Loaded /\ res.status = "ok") =>
    \A p \in Descriptors :
      p.required => Has(res.obj, p.propertyKey) /\ res.obj[p.propertyKey] # Undefined

\* the last call was a read of a path whose extension has no parser
UnsupportedRead ==
  /\ res.op \in {"readFromFileSync", "readFromFile"}
  /\ guessParseFunction(ToLowerCase(ExtName(res.path))) = "null"

\* C6 as stated: a read of a path whose extension has no parser fails with the
\* no-parser error before any file-system call, whether or not a file exists.
C6_FailsBeforeTouchingFile ==
  UnsupportedRead =>
    res.status = "throw" /\ res.error = "No parser found" /\ res.io = <<>>

\* C6 as amended: such a read always fails, without parsing or binding; it
\* fails with the no-parser error exactly when a regular file is at the path,
\* and then after the existence check and the read of the file's content; when
\* nothing is at the path it fails with the missing-file error of the
\* existence check and the content is not read.
C6_FailsAfterReadingFile ==
  UnsupportedRead =>
    /\ res.status = "throw" /\ res.doc = EmptyObj /\ res.obj = EmptyObj
    /\ (res.error = "No parser found") <=> (res.file = "file")
    /\ res.file = "file" =>
         res.io = IF res.op = "readFromFileSync"
                  THEN <<"existsSync", "readFileSync">> ELSE <<"stat", "readFile">>
    /\ res.file = "missing" =>
         /\ res.error = IF res.op = "readFromFileSync" THEN "No file at" ELSE "ENOENT"
         /\ res.io = IF res.op = "readFromFileSync" THEN <<"existsSync">> ELSE <<"stat">>

\* config.toml exists and is read before readFromFileSync finds no parser for it
C6_Witness ==
  /\ res.op = "readFromFileSync" /\ res.path = "config.toml" /\ res.file = "file"
  /\ res.error = "No parser found"
  /\ res.io = <<"existsSync", "readFileSync">>

\* what can be observed of an object: its fields, and the state of the
\* structured values they hold
View(obj, h) ==
  [k \in DOMAIN obj |-> <<obj[k], IF obj[k] \in Refs THEN h[obj[k]] ELSE 0>>]

\* what can be observed of the registry's defaults
DefaultsView(m, h) ==
  [c \in Classes |->
     [i \in DOMAIN m[c].list |->
        <<m[c].list[i].default,
          IF m[c].list[i].default \in Refs THEN h[m[c].list[i].default] ELSE 0>>]]

\* C7: the instances loadFromObject returns for one document share no mutable
\* state: a mutation the caller makes through one instance (of a field, or of
\* the structured value a field holds) shows neither through another instance
\* nor in the registry's descriptors (and so in no later bind).
C7_NoAliasing ==
  [][ (res'.op \in {"mutate", "assign"} /\ (heap' # heap \/ insts' # insts)) =>
        /\ \A j \in DOMAIN insts :
             j # res'.slot => View(insts'[j].obj, heap') = View(insts[j].obj, heap)
        /\ DefaultsView(meta', heap') = DefaultsView(meta, heap) ]_vars

\* C9: a Prop registration for a field of the class being defined appends
\* exactly one descriptor to that class's list and leaves the list looked up
\* for every other class as it was, a base class of the class included.
C9_RegistryIsolation ==
  [][ meta' # meta =>
        /\ HasPropList(meta', defining)
        /\ Len(getConfigPropList(meta', defining)) =
             (IF HasPropList(meta, defining)
              THEN Len(getConfigPropList(meta, defining)) ELSE 0) + 1
        /\ \A b \in defined \ {defining} :
             /\ HasPropList(meta', b) = HasPropList(meta, b)
             /\ HasPropList(meta, b) =>
                  getConfigPropList(meta', b) = getConfigPropList(meta, b) ]_vars

====
